---- MODULE Spec2Model ----
(***************************************************************************)
(* Hangman game (src/src/hangman/game.py) as a state machine.              *)
(*                                                                         *)
(* A Python str is a sequence of one-character strings, so 'apple' is      *)
(* <<"a","p","p","l","e">> and the character 'a' is <<"a">>.  The sets     *)
(* word_chars, guessed_chars and attempted_chars hold such strings.        *)
(*                                                                         *)
(* Two harnesses share the game's code, chosen in Init by the injected     *)
(* collaborators: the program's own (__main__: IOConsole and               *)
(* ChooseWordFromAPI) and the test fixture's (FkIOConsole with a list of   *)
(* return values, FkChooseWord).  The word service is taken to supply      *)
(* non-empty lowercase words.                                              *)
(***************************************************************************)
EXTENDS Integers, Sequences, FiniteSets, TLC

VARIABLES
    pc,               \* position of the session's control flow
    io_handler,       \* "IOConsole" | "FkIOConsole"
    choose_word_method, \* "ChooseWordFromAPI" | "FkChooseWord"
    return_values,    \* FkIOConsole.return_values
    shift,            \* FkIOConsole.shift
    container,        \* every text written so far, in order
    reads,            \* number of IOConsole.read() calls so far
    time_limit,       \* GameTimer.time_limit
    start,            \* GameTimer.start
    now,              \* the clock, time()
    word,             \* HangmanGame.word
    word_chars,       \* HangmanGame.word_chars
    guessed_chars,    \* HangmanGame.guessed_chars
    attempted_chars,  \* HangmanGame.attempted_chars
    guesses_cnt,      \* HangmanGame.guesses_cnt
    char,             \* play()'s local: the value read, lowercased
    calls,            \* the state-changing methods invoked so far, in order
    ret,              \* the value returned by the last direct method call
    exit_code,        \* the process's exit status
    raised            \* the exception that ended the run, "" if none

game == <<word, word_chars, guessed_chars, attempted_chars, guesses_cnt>>
timer == <<time_limit, start>>
io == <<io_handler, choose_word_method, return_values>>
vars == <<pc, io, shift, container, reads, timer, now, game, char, calls, ret, exit_code, raised>>

-----------------------------------------------------------------------------
(* Bounds of the model *)

MaxWordLen == 3     \* longest word the word service returns
MaxReads == 4       \* console reads in one session
MaxCalls == 2        \* direct calls of wrong_char and right_char on one game
MaxRepeats == 2      \* reads before the player of SpecLive stops repeating
MaxOverrun == 1     \* how far the clock runs past the time limit

(* Program constants *)

RequestTimeout == 10
TimeLimit == 30

-----------------------------------------------------------------------------
(* Strings *)

Letters == {"a", "b"}

RECURSIVE SeqsUpTo(_, _)
SeqsUpTo(S, n) ==
    IF n = 0 THEN {<<>>}
    ELSE LET shorter == SeqsUpTo(S, n - 1)
         IN  shorter \cup {Append(s, c) : s \in {t \in shorter : Len(t) = n - 1}, c \in S}

Words == SeqsUpTo(Letters, MaxWordLen) \ {<<>>}

apple == <<"a", "p", "p", "l", "e">>

\* set(s): the distinct characters of s
StrSet(s) == {<<s[i]>> : i \in DOMAIN s}

LowerChar(c) ==
    CASE c = "A" -> "a"
      [] c = "B" -> "b"
      [] OTHER -> c

\* s.lower()
Lower(s) == [i \in DOMAIN s |-> LowerChar(s[i])]

\* s.rstrip('\n')
RECURSIVE RStripNL(_)
RStripNL(s) ==
    IF s # <<>> /\ s[Len(s)] = "\n" THEN RStripNL(SubSeq(s, 1, Len(s) - 1)) ELSE s

\* text[2:-2]
Slice2(text) == SubSeq(text, 3, Len(text) - 2)

-----------------------------------------------------------------------------
(* Texts written through the io_handler *)

StartMsg == <<"Start guessing...">>
PromptMsg(hidden) == <<"guess a character: ", hidden>>
AlreadyMsg(ch) == <<"You've already tried character", ch>>
WrongMsg(number) == <<"Wrong, You have more guesses", number>>
TimeoutMsg == <<"You are out of time!">>
LoseMsg(w) == <<"You lose. The word is", w>>
WinMsg(w) == <<"You win", w>>
ServerTimeoutMsg(timeout) == <<"Server did not respond", timeout>>
RequestErrorMsg(error) == <<"An error occurred", error>>

write(text) == container' = Append(container, text)

-----------------------------------------------------------------------------
(* Collaborators *)

\* what two symbols of standard input can hold
Keys == {"a", "b", "x", "A"}
Chunks == {<<k, "\n">> : k \in Keys} \cup {<<"\n", "\n">>, <<"x", "y">>}

IOConsoleRead(chunk) == RStripNL(chunk)

\* the bodies the word service answers with
Responses == {<<"[", "\"">> \o w \o <<"\"", "]">> : w \in Words}
RequestErrors == {"ConnectionError"}

ChooseWordFromAPI(text) == Slice2(text)
FkChooseWord == apple

\* the lists the tests give FkIOConsole
Script(s) == [i \in DOMAIN s |-> <<s[i]>>]
ScriptWin == Script(<<"a", "x", "p", "y", "l", "z", "e">>)
ScriptLose == Script(<<"q", "w", "e", "r", "t", "y">>)
ScriptRepeated == Script(<<"a", "a", "p", "l", "e">>)
ScriptEmpty == Script(<<>>)
Scripts == {ScriptWin, ScriptLose, ScriptRepeated, ScriptEmpty}

Clock == {0} \cup ((TimeLimit - 1) .. (TimeLimit + MaxOverrun))

\* a comparison that already fires at the limit
is_time_up_at_limit == now - start >= time_limit

is_time_up == now - start > time_limit

-----------------------------------------------------------------------------
(* HangmanGame *)

\* a rendering that tests the word's own characters instead of the guessed ones
make_hidden_word_shows_all ==
    [i \in DOMAIN word |-> IF <<word[i]>> \in word_chars THEN word[i] ELSE "_"]

make_hidden_word ==
    [i \in DOMAIN word |-> IF <<word[i]>> \in guessed_chars THEN word[i] ELSE "_"]

\* a loop condition that forgets the guess counter
game_end_ignores_cnt ==
    Cardinality(guessed_chars) = Cardinality(word_chars)

game_end ==
    guesses_cnt = 0 \/ Cardinality(guessed_chars) = Cardinality(word_chars)

\* a constructor that grants one guess per distinct character
NewGame_unique_lives(w) ==
    /\ word' = w
    /\ word_chars' = StrSet(w)
    /\ guessed_chars' = {}
    /\ attempted_chars' = {}
    /\ guesses_cnt' = Cardinality(StrSet(w))

NewGame(w) ==
    /\ word' = w
    /\ word_chars' = StrSet(w)
    /\ guessed_chars' = {}
    /\ attempted_chars' = {}
    /\ guesses_cnt' = Len(w)

\* a wrong_char that writes its notice whatever the counter
wrong_char_always_writes(ch) ==
    /\ attempted_chars' = attempted_chars \cup {ch}
    /\ guesses_cnt' = guesses_cnt - 1
    /\ write(WrongMsg(guesses_cnt - 1))
    /\ calls' = Append(calls, <<"wrong_char", ch>>)
    /\ UNCHANGED <<word, word_chars, guessed_chars>>

\* a wrong_char that moves the counter the wrong way
wrong_char_increments(ch) ==
    /\ attempted_chars' = attempted_chars \cup {ch}
    /\ guesses_cnt' = guesses_cnt + 1
    /\ write(WrongMsg(guesses_cnt + 1))
    /\ calls' = Append(calls, <<"wrong_char", ch>>)
    /\ UNCHANGED <<word, word_chars, guessed_chars>>

wrong_char(ch) ==
    /\ attempted_chars' = attempted_chars \cup {ch}
    /\ guesses_cnt' = guesses_cnt - 1
    /\ IF guesses_cnt - 1 # 0
         THEN write(WrongMsg(guesses_cnt - 1))
         ELSE UNCHANGED container
    /\ calls' = Append(calls, <<"wrong_char", ch>>)
    /\ UNCHANGED <<word, word_chars, guessed_chars>>

\* a right_char that does not record the attempt
right_char_no_attempt(ch) ==
    /\ guessed_chars' = guessed_chars \cup {ch}
    /\ calls' = Append(calls, <<"right_char", ch>>)
    /\ UNCHANGED <<word, word_chars, guesses_cnt, container, attempted_chars>>

\* a right_char that also costs a guess
right_char_costs_guess(ch) ==
    /\ attempted_chars' = attempted_chars \cup {ch}
    /\ guessed_chars' = guessed_chars \cup {ch}
    /\ guesses_cnt' = guesses_cnt - 1
    /\ calls' = Append(calls, <<"right_char", ch>>)
    /\ UNCHANGED <<word, word_chars, container>>

right_char(ch) ==
    /\ attempted_chars' = attempted_chars \cup {ch}
    /\ guessed_chars' = guessed_chars \cup {ch}
    /\ calls' = Append(calls, <<"right_char", ch>>)
    /\ UNCHANGED <<word, word_chars, guesses_cnt, container>>

\* an out_of_time that only writes the notice
out_of_time_keeps_cnt ==
    /\ write(TimeoutMsg)
    /\ calls' = Append(calls, <<"out_of_time">>)
    /\ UNCHANGED <<word, word_chars, guessed_chars, attempted_chars, guesses_cnt>>

out_of_time ==
    /\ write(TimeoutMsg)
    /\ guesses_cnt' = 0
    /\ calls' = Append(calls, <<"out_of_time">>)
    /\ UNCHANGED <<word, word_chars, guessed_chars, attempted_chars>>

\* a loop body without the "already tried" branch
Propose_no_repeat_check(value) ==
    /\ char' = Lower(value)
    /\ IF char' \notin word_chars
         THEN wrong_char(char')
         ELSE right_char(char')

\* play(), lines 224-231: what one loop iteration does with the value read
Propose(value) ==
    /\ char' = Lower(value)
    /\ IF char' \in attempted_chars
         THEN /\ write(AlreadyMsg(char'))
              /\ UNCHANGED <<game, calls>>
         ELSE IF char' \notin word_chars
                THEN wrong_char(char')
                ELSE right_char(char')

-----------------------------------------------------------------------------
(* The session *)

Init ==
    /\ pc = "main"
    /\ \/ /\ io_handler = "IOConsole"
          /\ choose_word_method = "ChooseWordFromAPI"
          /\ return_values = <<>>
       \/ /\ io_handler = "FkIOConsole"
          /\ choose_word_method = "FkChooseWord"
          /\ return_values \in Scripts
    /\ shift = 0
    /\ container = <<>>
    /\ reads = 0
    /\ time_limit = TimeLimit
    /\ start = 0
    /\ now = 0
    /\ word = <<>>
    /\ word_chars = {}
    /\ guessed_chars = {}
    /\ attempted_chars = {}
    /\ guesses_cnt = 0
    /\ char = <<>>
    /\ calls = <<>>
    /\ ret = <<>>
    /\ exit_code = 0
    /\ raised = ""

\* HangmanGame.__init__ with a word from the word service
ConstructFromAPI ==
    /\ pc = "main"
    /\ choose_word_method = "ChooseWordFromAPI"
    /\ \E text \in Responses : NewGame(ChooseWordFromAPI(text))
    /\ pc' = "play"
    /\ UNCHANGED <<io, shift, container, reads, timer, now, calls, ret, char, exit_code, raised>>

\* requests.exceptions.Timeout in choose_word
FetchTimeout ==
    /\ pc = "main"
    /\ choose_word_method = "ChooseWordFromAPI"
    /\ raised' = "Timeout"
    /\ write(ServerTimeoutMsg(RequestTimeout))
    /\ exit_code' = 1
    /\ pc' = "exited"
    /\ UNCHANGED <<io, shift, reads, timer, now, game, calls, ret, char>>

\* a handler that writes the apology but leaves with sys.exit()
FetchError_exit_zero ==
    /\ pc = "main"
    /\ choose_word_method = "ChooseWordFromAPI"
    /\ \E error \in RequestErrors :
          /\ raised' = error
          /\ write(RequestErrorMsg(error))
    /\ pc' = "exited"
    /\ UNCHANGED <<io, shift, reads, timer, now, game, calls, ret, char, exit_code>>

\* any other requests.exceptions.RequestException in choose_word
FetchError ==
    /\ pc = "main"
    /\ choose_word_method = "ChooseWordFromAPI"
    /\ \E error \in RequestErrors :
          /\ raised' = error
          /\ write(RequestErrorMsg(error))
    /\ exit_code' = 1
    /\ pc' = "exited"
    /\ UNCHANGED <<io, shift, reads, timer, now, game, calls, ret, char>>

\* HangmanGame.__init__ in the test fixture
ConstructFk ==
    /\ pc = "main"
    /\ choose_word_method = "FkChooseWord"
    /\ NewGame(FkChooseWord)
    /\ pc' = "play"
    /\ UNCHANGED <<io, shift, container, reads, timer, now, calls, ret, char, exit_code, raised>>

\* play(), line 218
PlayStart ==
    /\ pc = "play"
    /\ write(StartMsg)
    /\ pc' = "loop"
    /\ UNCHANGED <<io, shift, reads, timer, now, game, calls, ret, char, exit_code, raised>>

\* a loop that checks the time before its own condition
LoopExit_time_first ==
    /\ pc = "loop"
    /\ game_end
    /\ IF is_time_up
         THEN out_of_time
         ELSE UNCHANGED <<game, calls, container>>
    /\ pc' = "result"
    /\ UNCHANGED <<io, shift, reads, timer, now, ret, char, exit_code, raised>>

\* play(), line 219: the loop condition fails
LoopExit ==
    /\ pc = "loop"
    /\ game_end
    /\ pc' = "result"
    /\ UNCHANGED <<io, shift, container, reads, timer, now, game, calls, ret, char, exit_code, raised>>

\* a time check without the break: the iteration goes on to the prompt
TimeUp_no_break ==
    /\ pc = "loop"
    /\ ~game_end
    /\ is_time_up
    /\ container' = container \o <<TimeoutMsg, PromptMsg(make_hidden_word)>>
    /\ guesses_cnt' = 0
    /\ calls' = Append(calls, <<"out_of_time">>)
    /\ pc' = "read"
    /\ UNCHANGED <<io, shift, reads, timer, now, ret, char, exit_code, raised,
                   word, word_chars, guessed_chars, attempted_chars>>

\* play(), lines 220-222
TimeUp ==
    /\ pc = "loop"
    /\ ~game_end
    /\ is_time_up
    /\ out_of_time
    /\ pc' = "result"
    /\ UNCHANGED <<io, shift, reads, timer, now, ret, char, exit_code, raised>>

\* play(), line 223
Prompt ==
    /\ pc = "loop"
    /\ ~game_end
    /\ ~is_time_up
    /\ write(PromptMsg(make_hidden_word))
    /\ pc' = "read"
    /\ UNCHANGED <<io, shift, reads, timer, now, game, calls, ret, char, exit_code, raised>>

\* a loop body that looks at the clock again once the read has returned
ConsoleRead_checks_time ==
    /\ pc = "read"
    /\ io_handler = "IOConsole"
    /\ reads < MaxReads
    /\ IF is_time_up
         THEN /\ out_of_time
              /\ pc' = "result"
              /\ UNCHANGED char
         ELSE /\ \E chunk \in Chunks : Propose(IOConsoleRead(chunk))
              /\ pc' = "loop"
    /\ reads' = reads + 1
    /\ UNCHANGED <<io, shift, timer, now, ret, exit_code, raised>>

\* play(), lines 224-231, reading from the console
ConsoleRead ==
    /\ pc = "read"
    /\ io_handler = "IOConsole"
    /\ reads < MaxReads
    /\ \E chunk \in Chunks : Propose(IOConsoleRead(chunk))
    /\ reads' = reads + 1
    /\ pc' = "loop"
    /\ UNCHANGED <<io, shift, timer, now, ret, exit_code, raised>>

\* play(), lines 224-231, reading from the test's list
FkRead ==
    /\ pc = "read"
    /\ io_handler = "FkIOConsole"
    /\ shift < Len(return_values)
    /\ Propose(return_values[shift + 1])
    /\ shift' = shift + 1
    /\ pc' = "loop"
    /\ UNCHANGED <<io, reads, timer, now, ret, exit_code, raised>>

\* FkIOConsole.read() past the end of its list: IndexError leaves play()
FkReadPastEnd ==
    /\ pc = "read"
    /\ io_handler = "FkIOConsole"
    /\ shift >= Len(return_values)
    /\ raised' = "IndexError"
    /\ pc' = "raised"
    /\ UNCHANGED <<io, shift, container, reads, timer, now, game, calls, ret, char, exit_code>>

\* an outcome test with its branches swapped
Result_inverted ==
    /\ pc = "result"
    /\ IF guesses_cnt # 0
         THEN write(LoseMsg(word))
         ELSE write(WinMsg(word))
    /\ pc' = "done"
    /\ UNCHANGED <<io, shift, reads, timer, now, game, calls, ret, char, exit_code, raised>>

\* play(), lines 232-235
Result ==
    /\ pc = "result"
    /\ IF guesses_cnt = 0
         THEN write(LoseMsg(word))
         ELSE write(WinMsg(word))
    /\ pc' = "done"
    /\ UNCHANGED <<io, shift, reads, timer, now, game, calls, ret, char, exit_code, raised>>

\* time passes
Tick ==
    /\ pc \in {"main", "play", "loop", "read", "result"}
    /\ \E t \in Clock : t > now /\ now' = t
    /\ UNCHANGED <<pc, io, shift, container, reads, timer, game, calls, ret, char, exit_code, raised>>

Next ==
    \/ ConstructFromAPI
    \/ FetchTimeout
    \/ FetchError
    \/ ConstructFk
    \/ PlayStart
    \/ LoopExit
    \/ TimeUp
    \/ Prompt
    \/ ConsoleRead
    \/ FkRead
    \/ FkReadPastEnd
    \/ Result
    \/ Tick

Spec == Init /\ [][Next]_vars

-----------------------------------------------------------------------------
(* The session with a player who, after MaxRepeats reads, stops repeating  *)
(* characters, and with every step of the program and every read taken     *)

\* play(), lines 224-231, reading from the console
ConsoleReadFresh ==
    /\ pc = "read"
    /\ io_handler = "IOConsole"
    /\ \E chunk \in Chunks :
          /\ reads < MaxRepeats \/ Lower(IOConsoleRead(chunk)) \notin attempted_chars
          /\ Propose(IOConsoleRead(chunk))
    /\ reads' = reads + 1
    /\ pc' = "loop"
    /\ UNCHANGED <<io, shift, timer, now, ret, exit_code, raised>>

Step ==
    \/ ConstructFromAPI
    \/ FetchTimeout
    \/ FetchError
    \/ ConstructFk
    \/ PlayStart
    \/ LoopExit
    \/ TimeUp
    \/ Prompt
    \/ ConsoleReadFresh
    \/ FkRead
    \/ FkReadPastEnd
    \/ Result

NextLive ==
    \/ Step
    \/ Tick

SpecLive == Init /\ [][NextLive]_vars /\ WF_vars(Step)

-----------------------------------------------------------------------------
(* Direct calls on a game whose fields the caller has set, as the unit     *)
(* tests do (test_make_hidden_word, test_game_end)                         *)

FieldChars == {<<c>> : c \in Letters \cup {"x"}}

InitUnit ==
    /\ pc = "unit"
    /\ io_handler = "FkIOConsole"
    /\ choose_word_method = "FkChooseWord"
    /\ return_values = <<>>
    /\ shift = 0
    /\ container = <<>>
    /\ reads = 0
    /\ time_limit = TimeLimit
    /\ start = 0
    /\ now = 0
    /\ word \in Words
    /\ word_chars = StrSet(word)
    /\ guessed_chars \in SUBSET FieldChars
    /\ attempted_chars = {}
    /\ guesses_cnt \in 0 .. MaxWordLen
    /\ char = <<>>
    /\ calls = <<>>
    /\ ret = <<>>
    /\ exit_code = 0
    /\ raised = ""

CallGameEnd ==
    /\ pc = "unit"
    /\ ret' = <<"game_end", game_end>>
    /\ UNCHANGED <<pc, io, shift, container, reads, timer, now, game, char, calls, exit_code, raised>>

CallMakeHiddenWord ==
    /\ pc = "unit"
    /\ ret' = <<"make_hidden_word", make_hidden_word>>
    /\ UNCHANGED <<pc, io, shift, container, reads, timer, now, game, char, calls, exit_code, raised>>

\* test_wrong_char
CallWrongChar ==
    /\ pc = "unit"
    /\ Len(calls) < MaxCalls
    /\ \E c \in FieldChars : wrong_char(c)
    /\ ret' = <<"wrong_char">>
    /\ UNCHANGED <<pc, io, shift, reads, timer, now, char, exit_code, raised>>

\* test_right_char
CallRightChar ==
    /\ pc = "unit"
    /\ Len(calls) < MaxCalls
    /\ \E c \in FieldChars : right_char(c)
    /\ ret' = <<"right_char">>
    /\ UNCHANGED <<pc, io, shift, reads, timer, now, char, exit_code, raised>>

NextUnit ==
    \/ CallGameEnd
    \/ CallMakeHiddenWord
    \/ CallWrongChar
    \/ CallRightChar

SpecUnit == InitUnit /\ [][NextUnit]_vars

-----------------------------------------------------------------------------
(* Direct calls on a GameTimer while the test moves the clock               *)
(* (test_is_time_up)                                                        *)

TestTimeLimits == {30, 60, 120}
TestStarts == {0, 7, 100}

\* the clock readings around each limit, and the two the test uses
TimerClock ==
    {start + limit + d : limit \in TestTimeLimits, d \in -1 .. MaxOverrun}
        \cup {start + 29, start + 121}

InitTimer ==
    /\ pc = "timer"
    /\ io_handler = "FkIOConsole"
    /\ choose_word_method = "FkChooseWord"
    /\ return_values = <<>>
    /\ shift = 0
    /\ container = <<>>
    /\ reads = 0
    /\ time_limit \in TestTimeLimits
    /\ start \in TestStarts
    /\ now = start
    /\ word = <<>>
    /\ word_chars = {}
    /\ guessed_chars = {}
    /\ attempted_chars = {}
    /\ guesses_cnt = 0
    /\ char = <<>>
    /\ calls = <<>>
    /\ ret = <<>>
    /\ exit_code = 0
    /\ raised = ""

\* freezer.move_to
MoveTo ==
    /\ pc = "timer"
    /\ \E t \in TimerClock : t > now /\ now' = t
    /\ ret' = <<>>
    /\ UNCHANGED <<pc, io, shift, container, reads, timer, game, char, calls, exit_code, raised>>

CallIsTimeUp ==
    /\ pc = "timer"
    /\ ret' = <<"is_time_up", is_time_up>>
    /\ UNCHANGED <<pc, io, shift, container, reads, timer, now, game, char, calls, exit_code, raised>>

NextTimer ==
    \/ MoveTo
    \/ CallIsTimeUp

SpecTimer == InitTimer /\ [][NextTimer]_vars

-----------------------------------------------------------------------------
(* Properties *)

Last(s) == s[Len(s)]

WrongCharInvoked ==
    /\ Len(calls') = Len(calls) + 1
    /\ calls'[Len(calls')][1] = "wrong_char"

TimedOut == \E i \in DOMAIN calls : calls[i][1] = "out_of_time"

Written(text) == \E i \in DOMAIN container : container[i] = text

WrongAttempts == attempted_chars \ word_chars

IsOutcome(text) == text[1] \in {LoseMsg(<<>>)[1], WinMsg(<<>>)[1]}

Outcomes == {i \in DOMAIN container : IsOutcome(container[i])}

\* C1: in every state reached by play() guesses_cnt is >= 0, and the loop never
\* invokes wrong_char while the counter is already 0.
C1_GuessesNeverNegative ==
    /\ [](guesses_cnt >= 0)
    /\ [][WrongCharInvoked => guesses_cnt > 0]_vars

\* a session lost on its last wrong proposal
C1_Witness ==
    /\ pc = "done"
    /\ guesses_cnt = 0
    /\ calls # <<>>
    /\ Last(calls)[1] = "wrong_char"

\* C2: in every state reached through play(), guessed_chars is a subset of
\* word_chars, word_chars is the set of characters of word, and guessed_chars is
\* a subset of attempted_chars.
C2_CharSets ==
    /\ guessed_chars \subseteq word_chars
    /\ word_chars = StrSet(word)
    /\ guessed_chars \subseteq attempted_chars

\* some characters guessed, some still hidden, some proposals wrong
C2_Witness ==
    /\ guessed_chars # {}
    /\ guessed_chars # word_chars
    /\ attempted_chars \ guessed_chars # {}

\* C3: for every word, guessed_chars and guesses_cnt, reachable or not,
\* game_end() returns true if and only if guesses_cnt = 0 or guessed_chars
\* equals word_chars as a set.
C3_GameEndIffSetEquality ==
    (ret # <<>> /\ ret[1] = "game_end") =>
        (ret[2] <=> (guesses_cnt = 0 \/ guessed_chars = word_chars))

\* C4: make_hidden_word() returns a string as long as the word that shows
\* word[i] at position i if and only if word[i] is guessed and an underscore
\* otherwise, and the call changes no field of the game.
C4_HiddenWord ==
    [][(ret' # ret /\ ret'[1] = "make_hidden_word") =>
          /\ Len(ret'[2]) = Len(word)
          /\ \A i \in DOMAIN word :
                /\ ret'[2][i] = word[i] <=> <<word[i]>> \in guessed_chars
                /\ <<word[i]>> \notin guessed_chars => ret'[2][i] = "_"
          /\ UNCHANGED <<game, container, calls>>]_vars

\* a rendering with a shown and a hidden position
C4_Witness ==
    /\ ret # <<>>
    /\ ret[1] = "make_hidden_word"
    /\ \E i, j \in DOMAIN ret[2] : ret[2][i] = "_" /\ ret[2][j] # "_"

\* C5: when the lowercased character read is already in attempted_chars, the
\* iteration writes the "already tried" notice naming it, calls neither
\* right_char nor wrong_char, and leaves every field of the game unchanged,
\* whether the earlier proposal was right or wrong.
C5_RepeatedChar ==
    [][(pc = "read" /\ pc' = "loop" /\ char' \in attempted_chars) =>
          /\ container' = Append(container, AlreadyMsg(char'))
          /\ calls' = calls
          /\ UNCHANGED game]_vars

\* a right character and a wrong character have each been repeated
C5_Witness ==
    /\ \E c \in guessed_chars : Written(AlreadyMsg(c))
    /\ \E c \in attempted_chars \ guessed_chars : Written(AlreadyMsg(c))

\* C6: a run of play() that leaves the loop writes exactly one outcome message,
\* as its last text: the lose message with the word if guesses_cnt = 0, else
\* the win message with the word.  A session in which every character of the
\* word was proposed and no timeout detected ends with the win message, one in
\* which len(word) distinct wrong characters were proposed with the lose message.
C6_Outcome ==
    /\ pc # "done" => Outcomes = {}
    /\ pc = "done" =>
          /\ Cardinality(Outcomes) = 1
          /\ Last(container) = (IF guesses_cnt = 0 THEN LoseMsg(word) ELSE WinMsg(word))
          /\ (~TimedOut /\ word_chars \subseteq attempted_chars)
                => Last(container) = WinMsg(word)
          /\ Cardinality(WrongAttempts) >= Len(word)
                => Last(container) = LoseMsg(word)

\* a session lost by len(word) wrong proposals after a right one
C6_Witness ==
    /\ pc = "done"
    /\ Last(container) = LoseMsg(word)
    /\ Cardinality(WrongAttempts) = Len(word)
    /\ guessed_chars # {}

\* C7: when a session has ended game_end() is true; when the win message is
\* written guessed_chars = word_chars and guesses_cnt > 0; a loss, by guesses or
\* by timeout, ends with guesses_cnt = 0.
C7_TerminalStates ==
    /\ pc \in {"result", "done"} =>
          /\ game_end
          /\ TimedOut => guesses_cnt = 0
    /\ pc = "done" =>
          /\ Last(container) = WinMsg(word) =>
                (guessed_chars = word_chars /\ guesses_cnt > 0)
          /\ Last(container) = LoseMsg(word) => guesses_cnt = 0
          /\ TimedOut => Last(container) = LoseMsg(word)

\* a session won with its last guess
C7_Witness ==
    /\ pc = "done"
    /\ Last(container) = WinMsg(word)
    /\ guesses_cnt = 1
    /\ Len(word) > 1

\* C8: when the loop's time check finds is_time_up() true, out_of_time() is
\* called: the timeout notice is written, guesses_cnt becomes 0 whatever it
\* was, the loop is left with no further prompt or read, and the next and last
\* text written is the lose message with the word.
C8_Timeout ==
    /\ [](\A i \in DOMAIN container :
             container[i] = TimeoutMsg =>
                /\ guesses_cnt = 0
                /\ \/ i = Len(container) /\ pc = "result"
                   \/ /\ i = Len(container) - 1
                      /\ Last(container) = LoseMsg(word)
                      /\ pc = "done")
    /\ [][(pc = "loop" /\ pc' # pc /\ ~game_end /\ is_time_up) =>
             /\ container' = Append(container, TimeoutMsg)
             /\ calls' = Append(calls, <<"out_of_time">>)
             /\ guesses_cnt' = 0
             /\ pc' = "result"
             /\ UNCHANGED <<reads, shift>>]_vars

\* a session timed out after a right proposal, with guesses left
C8_Witness ==
    /\ pc = "done"
    /\ TimedOut
    /\ guessed_chars # {}
    /\ Cardinality(WrongAttempts) < Len(word)

ScenarioDone(script) ==
    /\ pc = "done"
    /\ io_handler = "FkIOConsole"
    /\ word = apple
    /\ return_values = script
    /\ ~TimedOut

\* C9 as stated: with word "apple", no timeout and inputs a, x, p, y, l, z, e
\* the final message is the win message with "apple", and exactly two wrong
\* guesses have been recorded.
C9_TwoWrongGuesses ==
    ScenarioDone(ScriptWin) =>
        /\ Last(container) = WinMsg(apple)
        /\ Cardinality(WrongAttempts) = 2

\* C9 amended: with word "apple", no timeout and inputs a, x, p, y, l, z, e
\* the final message is the win message with "apple", and exactly three wrong
\* guesses (x, y, z) have been recorded, which leaves two guesses.
C9_ThreeWrongGuesses ==
    ScenarioDone(ScriptWin) =>
        /\ Last(container) = WinMsg(apple)
        /\ WrongAttempts = {<<"x">>, <<"y">>, <<"z">>}
        /\ Cardinality({i \in DOMAIN calls : calls[i][1] = "wrong_char"}) = 3
        /\ guesses_cnt = 2
        /\ shift = Len(ScriptWin)

C9_Witness == ScenarioDone(ScriptWin) /\ shift = Len(ScriptWin)

\* C10 as stated: with word "apple" and no timeout, the inputs q, w, e, r, t, y
\* are wrong-only proposals that exhaust the 5 guesses, and the final message
\* is "You lose. The word is apple".
C10_WrongOnly ==
    ScenarioDone(ScriptLose) =>
        /\ \A i \in DOMAIN calls : calls[i][1] = "wrong_char"
        /\ guesses_cnt = 0
        /\ Last(container) = LoseMsg(apple)

\* C10 amended: with word "apple" and no timeout, of the inputs q, w, e, r, t, y
\* the five q, w, r, t, y are wrong and exhaust the 5 guesses, e is right, and
\* the final message is "You lose. The word is apple".
C10_FiveWrongOneRight ==
    ScenarioDone(ScriptLose) =>
        /\ WrongAttempts = {<<"q">>, <<"w">>, <<"r">>, <<"t">>, <<"y">>}
        /\ guessed_chars = {<<"e">>}
        /\ guesses_cnt = 0
        /\ shift = Len(ScriptLose)
        /\ Last(container) = LoseMsg(apple)

C10_Witness == ScenarioDone(ScriptLose) /\ guesses_cnt = 0

\* C11: with word "apple", no timeout and inputs a, a, p, l, e the output holds
\* the "already tried character 'a'" notice exactly once, no guess is lost, and
\* the session ends with the win message.
C11_RepeatedOnce ==
    ScenarioDone(ScriptRepeated) =>
        /\ Cardinality({i \in DOMAIN container : container[i] = AlreadyMsg(<<"a">>)}) = 1
        /\ Cardinality({i \in DOMAIN container : container[i][1] = AlreadyMsg(<<>>)[1]}) = 1
        /\ guesses_cnt = Len(apple)
        /\ WrongAttempts = {}
        /\ shift = Len(ScriptRepeated)
        /\ Last(container) = WinMsg(apple)

C11_Witness == ScenarioDone(ScriptRepeated) /\ Written(AlreadyMsg(<<"a">>))

\* C16: after construction word and word_chars never change, guessed_chars and
\* attempted_chars only grow, and guesses_cnt never increases.
C16_Monotone ==
    [][pc # "main" =>
          /\ word' = word
          /\ word_chars' = word_chars
          /\ guessed_chars \subseteq guessed_chars'
          /\ attempted_chars \subseteq attempted_chars'
          /\ guesses_cnt' <= guesses_cnt]_vars

\* both sets have grown and the counter has dropped
C16_Witness ==
    /\ pc = "loop"
    /\ guessed_chars # {}
    /\ WrongAttempts # {}
    /\ guesses_cnt < Len(word)
    /\ guesses_cnt > 0

\* C18: in every state of play() before out_of_time() is called, guessed_chars
\* is attempted_chars intersected with word_chars and guesses_cnt is len(word)
\* minus the number of attempted characters that are not in word_chars.
C18_Accounting ==
    ~TimedOut =>
        /\ guessed_chars = attempted_chars \cap word_chars
        /\ guesses_cnt = Len(word) - Cardinality(WrongAttempts)

\* a right, a wrong and a repeated proposal have all been made
C18_Witness ==
    /\ ~TimedOut
    /\ guessed_chars # {}
    /\ WrongAttempts # {}
    /\ \E c \in attempted_chars : Written(AlreadyMsg(c))

Won ==
    /\ pc \in {"loop", "result", "done"}
    /\ guessed_chars = word_chars
    /\ guesses_cnt > 0

\* C20: once a proposal makes guessed_chars = word_chars with guesses_cnt > 0,
\* the loop ends before any further time check: no timeout notice is written
\* and the win message is written, even if the time was already up when the
\* proposal was read.
C20_WinKept ==
    /\ [](Won => /\ ~Written(TimeoutMsg)
                 /\ ~TimedOut
                 /\ pc = "done" => Last(container) = WinMsg(word))
    /\ [][Won => (Won' /\ (pc' # pc => pc' \in {"result", "done"}))]_vars

\* a win announced after the time limit had passed
C20_Witness ==
    /\ pc = "done"
    /\ Last(container) = WinMsg(word)
    /\ is_time_up

\* C15: when the word fetch fails, exactly one apology is written (naming the
\* 10-second limit for a request timeout, the error detail otherwise), the
\* process ends with a non-zero exit status and no session starts: no banner,
\* prompt or outcome is ever written and no input is read.
C15_FetchFailure ==
    /\ [](pc = "exited" =>
             /\ exit_code # 0
             /\ raised # ""
             /\ container = <<IF raised = "Timeout"
                                THEN <<"Server did not respond", 10>>
                                ELSE <<"An error occurred", raised>>>>
             /\ reads = 0 /\ shift = 0 /\ calls = <<>> /\ word = <<>>)
    /\ [][pc = "exited" => UNCHANGED vars]_vars
    /\ [][(pc = "main" /\ raised' # "") => pc' = "exited"]_vars

\* the request timed out and the process has ended
C15_Witness ==
    /\ pc = "exited"
    /\ raised = "Timeout"
    /\ Len(container) = 1

\* what lines 224-231 do with the character read, whatever the clock shows
Applied ==
    /\ char' \in attempted_chars =>
          /\ UNCHANGED game
          /\ calls' = calls
          /\ container' = Append(container, AlreadyMsg(char'))
    /\ (char' \notin attempted_chars /\ char' \in word_chars) =>
          /\ guessed_chars' = guessed_chars \cup {char'}
          /\ attempted_chars' = attempted_chars \cup {char'}
          /\ guesses_cnt' = guesses_cnt
          /\ calls' = Append(calls, <<"right_char", char'>>)
    /\ (char' \notin attempted_chars /\ char' \notin word_chars) =>
          /\ guessed_chars' = guessed_chars
          /\ attempted_chars' = attempted_chars \cup {char'}
          /\ guesses_cnt' = guesses_cnt - 1
          /\ calls' = Append(calls, <<"wrong_char", char'>>)
    /\ \A i \in DOMAIN container' : container'[i] # TimeoutMsg

TimeoutInvoked ==
    /\ Len(calls') = Len(calls) + 1
    /\ calls'[Len(calls')][1] = "out_of_time"

\* C17: the time budget is checked only at the start of an iteration, before
\* the prompt and the read: a character whose read returns after the budget
\* ran out is still classified and applied as if no time had passed, and the
\* timeout is detected only at the next iteration's check.
C17_ReadNotCancelled ==
    /\ [][(pc = "read" /\ pc' # pc) =>
             (pc' \in {"loop", "raised"} /\ (pc' = "loop" => Applied))]_vars
    /\ [][TimeoutInvoked => (pc = "loop" /\ is_time_up)]_vars
    /\ [][(pc = "loop" /\ pc' = "read") => ~is_time_up]_vars

\* a wrong proposal was applied although the time was up, and the game goes on
C17_Witness ==
    /\ pc = "loop"
    /\ is_time_up
    /\ ~game_end
    /\ calls # <<>>
    /\ Last(calls) = <<"wrong_char", char>>
    /\ container # <<>>
    /\ Last(container) = WrongMsg(guesses_cnt)

RightCharInvoked ==
    /\ Len(calls') = Len(calls) + 1
    /\ calls'[Len(calls')][1] = "right_char"

\* C12: wrong_char(c), invoked with guesses_cnt > 0, adds c to attempted_chars,
\* leaves guessed_chars and word unchanged, decrements guesses_cnt by exactly 1,
\* and writes the "Wrong / You have N more guesses" notice, N the new counter,
\* if and only if the new counter is positive; at 0 it writes nothing.
C12_WrongChar ==
    [][(WrongCharInvoked /\ guesses_cnt > 0) =>
          LET c == calls'[Len(calls')][2]
          IN  /\ attempted_chars' = attempted_chars \cup {c}
              /\ guessed_chars' = guessed_chars
              /\ word' = word
              /\ word_chars' = word_chars
              /\ guesses_cnt' = guesses_cnt - 1
              /\ container' = IF guesses_cnt' > 0
                                THEN Append(container, <<"Wrong, You have more guesses", guesses_cnt'>>)
                                ELSE container]_vars

\* two calls: the first wrote its notice, the second reached 0 and wrote none
C12_Witness ==
    /\ pc = "unit"
    /\ ret = <<"wrong_char">>
    /\ guesses_cnt = 0
    /\ container = <<WrongMsg(1)>>

\* C13: right_char(c) adds c to attempted_chars and to guessed_chars, writes
\* nothing, and leaves guesses_cnt, word and word_chars unchanged.
C13_RightChar ==
    [][RightCharInvoked =>
          LET c == calls'[Len(calls')][2]
          IN  /\ attempted_chars' = attempted_chars \cup {c}
              /\ guessed_chars' = guessed_chars \cup {c}
              /\ container' = container
              /\ guesses_cnt' = guesses_cnt
              /\ word' = word
              /\ word_chars' = word_chars]_vars

\* right_char has put a new character into both sets
C13_Witness ==
    /\ pc = "unit"
    /\ ret = <<"right_char">>
    /\ Len(calls) = 1
    /\ calls[1][2] \in guessed_chars \cap attempted_chars
    /\ container = <<>>

\* C14: for every time limit and every query time is_time_up() returns true if
\* and only if now - start is strictly greater than the limit; at an elapsed
\* time equal to the limit it returns false.
C14_StrictlyAfterLimit ==
    (ret # <<>> /\ ret[1] = "is_time_up") =>
        LET elapsed == now - start
        IN  /\ ret[2] <=> elapsed > time_limit
            /\ elapsed = time_limit => ret[2] = FALSE
            /\ elapsed < time_limit => ret[2] = FALSE

\* asked at exactly the limit, on a timer that did not start at 0
C14_Witness ==
    /\ ret = <<"is_time_up", FALSE>>
    /\ now - start = time_limit
    /\ start # 0

Proposals ==
    Cardinality({i \in DOMAIN calls : calls[i][1] \in {"right_char", "wrong_char"}})

RepeatStep == pc = "read" /\ pc' = "loop" /\ char' \in attempted_chars

\* C19: a session processes at most len(word) + |word_chars| - 1 non-repeated
\* proposals before game_end() is true, so when every read returns and the
\* player stops repeating tried characters play() leaves the loop and writes
\* the outcome; at a time check with the time up the loop is left at once;
\* a repeated character changes nothing, so a player who repeats for ever
\* while the timer does not fire keeps the loop running.
C19_Termination ==
    /\ [](pc \notin {"main", "exited"} =>
             Proposals <= Len(word) + Cardinality(word_chars) - 1)
    /\ (pc = "play" /\ io_handler = "IOConsole") ~> (pc = "done" /\ Outcomes # {})
    /\ [](pc = "loop" /\ ~game_end =>
             IF is_time_up
               THEN ENABLED TimeUp /\ ~ENABLED Prompt
               ELSE ENABLED Prompt /\ ~ENABLED LoopExit /\ ~ENABLED TimeUp)
    /\ [][RepeatStep => (UNCHANGED game /\ ~game_end /\ pc' = "loop")]_vars

\* a session that needed every one of its len(word) + |word_chars| - 1 proposals
C19_Witness ==
    /\ pc = "done"
    /\ io_handler = "IOConsole"
    /\ Cardinality(word_chars) > 1
    /\ Proposals = Len(word) + Cardinality(word_chars) - 1
    /\ reads > Proposals

====
